---- MODULE Spec2Model ----
(***************************************************************************)
(* Model of the outfit generator's request-shaping layer:                  *)
(*   - the rate limiter (services/rateLimiter, consumed by the hook),      *)
(*   - the retrying remote caller (generate*Internal),                     *)
(*   - the memory / durable / blob cache tiers,                            *)
(*   - the useOutfitGeneration hook and the App handlers that call it.     *)
(* One action is one synchronous segment of a handler: JavaScript runs a   *)
(* handler to its next await without interleaving, and a promise's         *)
(* continuation runs before any other event handler.                       *)
(***************************************************************************)
EXTENDS Integers, Sequences, FiniteSets, TLC

(***************************************************************************)
(* Bounds of the model.                                                    *)
(***************************************************************************)
MaxTime == 3
MaxInvocations == 2
NumCalls == 2

Calls == 1..NumCalls

(***************************************************************************)
(* Program constants.                                                      *)
(***************************************************************************)
maxAttempts == 3
fallbackMs == 20000

MODEL == "gemini-2.5-flash-image-preview"
DEFAULT_BODY_PATH == "/assets/model.png"
CACHE_PREFIX == "outfit_"

NULL == "<null>"
NoUrl == [kind |-> "null"]
NoErr == [kind |-> "none"]
NoHint == << >>

(***************************************************************************)
(* Small helpers.                                                          *)
(***************************************************************************)
Put(m, k, v) == [x \in (DOMAIN m) \cup {k} |-> IF x = k THEN v ELSE m[x]]

EmptyMap == [x \in {} |-> NoUrl]

Last(s) == s[Len(s)]

RECURSIVE Pow2(_)
Pow2(n) == IF n <= 0 THEN 1 ELSE 2 * Pow2(n - 1)

(***************************************************************************)
(* isQuotaError / getRetryMsFromError.  An error object is a record        *)
(*   ecode         err.error.code        (0: absent)                       *)
(*   status        err.status            (0: absent)                       *)
(*   code          err.code              (0: absent)                       *)
(*   estatus       err.error.status      ("": absent)                      *)
(*   statusMessage err.statusMessage     ("": absent)                      *)
(*   hasMessage    typeof err.message === "string"                         *)
(*   message       err.message                                             *)
(*   json          JSON.stringify(err)                                     *)
(*   retryDelay    the retryDelay of the RetryInfo detail, as a sequence   *)
(*                 of one-character strings (NoHint: no such detail)       *)
(***************************************************************************)
Or3(a, b, c) == IF a # 0 THEN a ELSE IF b # 0 THEN b ELSE c

OrStr(a, b) == IF a # "" THEN a ELSE b

isQuotaError(err) ==
    LET code == Or3(err.ecode, err.status, err.code)
        status == OrStr(err.estatus, err.statusMessage)
    IN  IF code = 429 THEN TRUE ELSE status = "RESOURCE_EXHAUSTED"

Digits == {"0", "1", "2", "3", "4", "5", "6", "7", "8", "9"}

DigitVal(ch) ==
    CASE ch = "0" -> 0 [] ch = "1" -> 1 [] ch = "2" -> 2 [] ch = "3" -> 3
      [] ch = "4" -> 4 [] ch = "5" -> 5 [] ch = "6" -> 6 [] ch = "7" -> 7
      [] ch = "8" -> 8 [] ch = "9" -> 9

AllDigits(s) == Len(s) >= 1 /\ \A i \in 1..Len(s) : s[i] \in Digits

\* parseInt(s, 10) of a non-empty digit string
RECURSIVE ParseInt(_)
ParseInt(s) ==
    IF Len(s) = 0 THEN 0
    ELSE 10 * ParseInt(SubSeq(s, 1, Len(s) - 1)) + DigitVal(Last(s))

IndexOfDot(s) ==
    IF \E i \in 1..Len(s) : s[i] = "."
    THEN CHOOSE i \in 1..Len(s) : s[i] = "." /\ \A j \in 1..(i - 1) : s[j] # "."
    ELSE 0

\* /^(\d+)(?:\.(\d+))?s$/ : the groups <<m1, m2>>, or << >> when there is no match
RetryDelayMatch(s) ==
    IF Len(s) < 2 \/ Last(s) # "s" THEN << >>
    ELSE LET body == SubSeq(s, 1, Len(s) - 1)
             dot == IndexOfDot(body)
         IN  IF dot = 0
             THEN IF AllDigits(body) THEN <<body, << >> >> ELSE << >>
             ELSE LET m1 == SubSeq(body, 1, dot - 1)
                      m2 == SubSeq(body, dot + 1, Len(body))
                  IN  IF AllDigits(m1) /\ AllDigits(m2) THEN <<m1, m2>> ELSE << >>

\* mutant: the fraction is not padded to three digits
SlicePad3NoPad(s) == SubSeq(s, 1, IF Len(s) < 3 THEN Len(s) ELSE 3)

\* m[2].slice(0, 3).padEnd(3, "0")
SlicePad3(s) ==
    LET cut == SubSeq(s, 1, IF Len(s) < 3 THEN Len(s) ELSE 3)
    IN  cut \o [i \in 1..(3 - Len(cut)) |-> "0"]

getRetryMsFromError(err, fallback) ==
    IF err.retryDelay # NoHint
    THEN LET m == RetryDelayMatch(err.retryDelay)
         IN  IF m # << >>
             THEN LET sec == ParseInt(m[1])
                      frac == IF m[2] # << >> THEN ParseInt(SlicePad3(m[2])) ELSE 0
                  IN  sec * 1000 + frac
             ELSE fallback
    ELSE fallback

\* mutant: the exponent is the attempt number
BackoffWaitMsDoubled(err, attempt) == getRetryMsFromError(err, fallbackMs) * Pow2(attempt)

\* Math.round(base * Math.pow(2, attempt - 1)) of the retry loop
BackoffWaitMs(err, attempt) == getRetryMsFromError(err, fallbackMs) * Pow2(attempt - 1)

\* mutant: every failure is retried until the attempts run out
RetryGivesUpOnCountOnly(err, attempt) == attempt >= maxAttempts - 1

\* mutant: the attempt count is compared one too late
RetryGivesUpLate(err, attempt) == (~isQuotaError(err)) \/ attempt >= maxAttempts

\* the catch's exit test: the failure is final
RetryGivesUp(err, attempt) == (~isQuotaError(err)) \/ attempt >= maxAttempts - 1

ErrMsg(err) == IF err.hasMessage THEN err.message ELSE err.json

\* { success: false, error: `Gemini API error. ${msg}` }
ApiErrorResult(err) ==
    [success |-> FALSE, imageUrl |-> NoUrl, error |-> "Gemini API error. " \o ErrMsg(err)]

\* mutant: the text parts are not carried
NoImageResultWithoutText(text) ==
    [success |-> FALSE, imageUrl |-> NoUrl,
     error |-> "Gemini did not return an image. No image data returned"]

\* { success: false, error: `Gemini did not return an image. ${msg}` }
NoImageResult(text) ==
    [success |-> FALSE, imageUrl |-> NoUrl,
     error |-> "Gemini did not return an image. " \o
               (IF text # "" THEN text ELSE "No image data returned")]

NoKeyResult ==
    [success |-> FALSE, imageUrl |-> NoUrl,
     error |-> "Set VITE_GOOGLE_API_KEY and enable billing for image generation."]

OkResult(url) == [success |-> TRUE, imageUrl |-> url, error |-> ""]

NoResult == [success |-> FALSE, imageUrl |-> NoUrl, error |-> ""]

(***************************************************************************)
(* RateLimiter (services/rateLimiter).  State: the ordered history of      *)
(* accepted-call timestamps and the configuration.                         *)
(***************************************************************************)
InWindow(h, cfg, t) == SelectSeq(h, LAMBDA x : t - x < cfg.windowMs)

CooldownDenies(h, cfg, t) == Len(h) > 0 /\ t - Last(h) < cfg.cooldownMs

canMakeCall(h, cfg, t) ==
    IF CooldownDenies(h, cfg, t)
    THEN [allowed |-> FALSE, reason |-> "cooldown",
          waitTime |-> cfg.cooldownMs - (t - Last(h))]
    ELSE LET w == InWindow(h, cfg, t)
         IN  IF Len(w) >= cfg.maxCalls
             THEN [allowed |-> FALSE, reason |-> "window limit",
                   waitTime |-> (w[1] + cfg.windowMs) - t]
             ELSE [allowed |-> TRUE, reason |-> NULL, waitTime |-> 0]

\* mutant: every read drops the entries older than the window, also the call the
\* cooldown is measured from
HistoryAfterCheckEager(h, cfg, t) == SelectSeq(h, LAMBDA x : t - x < cfg.windowMs)

\* entries older than the window are dropped lazily, by the read that counts the window
HistoryAfterCheck(h, cfg, t) == IF CooldownDenies(h, cfg, t) THEN h ELSE InWindow(h, cfg, t)

recordCall(h, t) == Append(h, t)

getStatus(h, cfg, t) ==
    [callsInWindow |-> Len(InWindow(h, cfg, t)),
     nextAvailable |-> t + canMakeCall(h, cfg, t).waitTime]

\* the configurations the limiter runs under (milliseconds)
Configs ==
    { [cooldownMs |-> 1, maxCalls |-> 1, windowMs |-> 3],
      [cooldownMs |-> 2, maxCalls |-> 2, windowMs |-> 3] }

(***************************************************************************)
(* Inputs.                                                                 *)
(***************************************************************************)
\* two bottoms share one blob: addClothingItem names a blob by category and millisecond
TopItems == { [id |-> "t1", imageUrl |-> "tops_1.png"] }

BottomItems == { [id |-> "b1", imageUrl |-> "bottoms_1.png"],
                 [id |-> "b2", imageUrl |-> "bottoms_1.png"] }

Occasions == {"gym", "bar"}

Files == { [name |-> "look.png", size |-> 10] }

ApiKeys == {"", "key"}

\* what the remote generation call can throw
RemoteErrors ==
    { [ecode |-> 429, status |-> 0, code |-> 0, estatus |-> "", statusMessage |-> "",
       hasMessage |-> TRUE, message |-> "quota A", json |-> "{429}", retryDelay |-> NoHint],
      [ecode |-> 0, status |-> 0, code |-> 0, estatus |-> "RESOURCE_EXHAUSTED",
       statusMessage |-> "", hasMessage |-> TRUE, message |-> "quota B", json |-> "{RE}",
       retryDelay |-> <<"0", ".", "0", "0", "2", "s">>],
      [ecode |-> 0, status |-> 500, code |-> 0, estatus |-> "", statusMessage |-> "",
       hasMessage |-> TRUE, message |-> "server error", json |-> "{500}",
       retryDelay |-> NoHint] }

\* the text parts of a response that carries no inline image
RemoteTexts == {"blocked by safety filter", ""}

(***************************************************************************)
(* Cache keys and prompts.                                                 *)
(***************************************************************************)
buildPrompt == "Create a new image by combining the elements from the provided images. Take the top clothing item from image 1 and the bottom clothing item from image 2, and place them naturally onto the body in image 3 so it looks like the person is wearing the selected outfit. Fit to body shape and pose, preserve garment proportions and textures, match lighting and shadows, handle occlusion by hair and arms. CRITICAL: The background must be completely white (#FFFFFF) - do not use black, transparent, or any other background color. Replace any existing background with solid white. Do not change the person identity or add accessories."

transferPrompt == "Using the provided images, place the outfit from image 2 onto the person in image 1. Keep the face, body shape, and background of image 1 completely unchanged. Ensure the outfit integrates naturally with the model's body shape, pose, and lighting. CRITICAL: The background must be completely white (#FFFFFF) - do not use black, transparent, or any other background color. Do not change the person identity or add accessories."

customPromptFor(occasion) == "Using the provided image of a model, please add an outfit to the model that would work in this occasion: " \o occasion \o ". Ensure the outfit integrates naturally with the model's body shape, pose, and lighting. Keep the background plain white so the focus stays on the model and the outfit."

cacheKeyFor(topPath, bottomPath, bodyPath, prompt) ==
    CACHE_PREFIX \o MODEL \o "|" \o topPath \o "|" \o bottomPath \o "|" \o bodyPath
        \o "|v1:" \o ToString(Len(prompt))

nanoKeyFor(bodyPath, customPrompt) ==
    "nano_" \o MODEL \o "|" \o bodyPath \o "|v1:" \o ToString(Len(customPrompt))

transferKeyFor(inspirationImagePath, bodyPath) ==
    "transfer_" \o MODEL \o "|" \o inspirationImagePath \o "|" \o bodyPath
        \o "|v1:" \o ToString(Len(transferPrompt))

\* the hook's memory-tier keys
outfitHookKey(top, bottom) == "outfit::" \o top.id \o "::" \o bottom.id

nanoHookKey(occasion) == "nano::" \o occasion

transferHookKey(file) == "transfer::" \o file.name \o "::" \o ToString(file.size)

\* URL.createObjectURL: a fresh blob: URL per call
objectUrlFor(n) == "blob:" \o ToString(n)

\* the row key of generated_outfits composites
pairKey(topId, bottomId) == topId \o "__" \o bottomId

\* the generated_image_url of the pair's row, or null
getCachedComposite(rows, topId, bottomId) ==
    IF pairKey(topId, bottomId) \in DOMAIN rows THEN rows[pairKey(topId, bottomId)].url ELSE NoUrl

\* mutant: the upsert reports success and writes nothing
saveCachedCompositeLost(rows, topId, bottomId, generatedImageUrl) == rows

\* upsert of the pair's row
saveCachedComposite(rows, topId, bottomId, generatedImageUrl) ==
    Put(rows, pairKey(topId, bottomId), [url |-> generatedImageUrl, source |-> "select"])

\* mutant: the row is inserted with the source select whatever the mode
saveGeneratedOutfitAsSelect(rows, generatedImageUrl, generatorSource) ==
    Append(rows, [topId |-> NULL, bottomId |-> NULL, url |-> generatedImageUrl,
                  source |-> "select"])

\* insert of a row; topId and bottomId default to null
saveGeneratedOutfit(rows, generatedImageUrl, generatorSource) ==
    Append(rows, [topId |-> NULL, bottomId |-> NULL, url |-> generatedImageUrl,
                  source |-> generatorSource])

ItemUrl(items, id) == (CHOOSE it \in items : it.id = id).imageUrl

\* the blob names the program builds
outfitFileName(topId, bottomId, t) == "outfit_" \o topId \o "_" \o bottomId \o "_" \o ToString(t) \o ".png"

nanoFileName(t) == "nano_" \o ToString(t) \o ".png"

transferFileName(t) == "transfer_" \o ToString(t) \o ".png"

\* `data:image/png;base64,${imagePart.inlineData.data}`: img is the image the remote
\* made, the n-th it produced, for the request it was sent
DataUrl(img) == [kind |-> "data", ref |-> ToString(img.n), request |-> img.request]

StorageUrl(name) == [kind |-> "storage", ref |-> name]

CompositeUrl(topUrl, bottomUrl) == [kind |-> "composite", ref |-> topUrl \o "+" \o bottomUrl]

\* finalUrl.startsWith("data:")
IsDataUrl(u) == u.kind = "data"

(***************************************************************************)
(* State.                                                                  *)
(***************************************************************************)
VARIABLES
    apiKey,          \* import.meta.env.VITE_GOOGLE_API_KEY
    config,          \* rateLimiter configuration
    now,             \* Date.now()
    history,         \* rateLimiter call history
    callLog,         \* every timestamp recordCall ever appended (observer)
    inFlight,        \* inFlightRef.current
    cacheRef,        \* cacheRef.current : key -> [url, isComposite]
    outfitCache,     \* window.__outfitCache
    nanoCache,       \* window.__nanoCache
    transferCache,   \* window.__transferCache
    composites,      \* generated_outfits rows of a (top, bottom) pair : pairKey -> row
    outfitRows,      \* generated_outfits rows inserted by saveGeneratedOutfit
    blobs,           \* the generated-outfits bucket : file name -> content
    generatedImage,  \* hook state
    isGenerating,    \* hook state
    error,           \* hook state
    isComposite,     \* hook state
    liveObjectUrls,  \* object URLs created and not yet revoked
    pc,              \* where each call of a hook operation is suspended
    op,              \* each call's locals, and what it has done so far
    nInvocations,    \* calls made so far
    nImages,         \* images the remote has produced so far
    clothingItems,   \* clothing_items rows
    clothingBlobs,   \* the clothing-images bucket : file name -> the file stored
    wardrobeTasks    \* the calls of addClothingItem and deleteClothingItem, in call order

limiterVars == <<config, history, callLog>>
uiVars == <<generatedImage, isGenerating, error, isComposite>>
genCacheVars == <<outfitCache, nanoCache, transferCache>>
durableVars == <<composites, outfitRows, blobs>>
callVars == <<pc, op, nInvocations>>
wardrobeVars == <<clothingItems, clothingBlobs, wardrobeTasks>>

vars == <<apiKey, now, limiterVars, inFlight, cacheRef, genCacheVars, durableVars,
          uiVars, liveObjectUrls, callVars, nImages, wardrobeVars>>

\* no clothing item uploaded, no upload or deletion under way
EmptyWardrobe ==
    /\ clothingItems = {}
    /\ clothingBlobs = [x \in {} |-> ""]
    /\ wardrobeTasks = << >>

IdleOp ==
    [mode |-> "none", via |-> "none", key |-> "", gkey |-> "", topId |-> "", bottomId |-> "",
     objUrl |-> "", attempt |-> 0, err |-> NoErr, waitMs |-> 0, wakeAt |-> 0,
     fileName |-> "", dataUrl |-> NoUrl, storageUrl |-> NoUrl, result |-> NoResult,
     outcome |-> "none", hit |-> NoUrl, reason |-> NULL, text |-> NULL, calledAt |-> << >>,
     remoteCalls |-> 0, responses |-> 0, recorded |-> 0, rlChecks |-> 0, nWaits |-> 0,
     quotaErrors |-> 0]

\* the composite rows another session stored before this one started: the pair
\* (t1, b1) has one, the pair (t1, b2) has none
InitialComposites ==
    { [k \in {pairKey("t1", "b1")} |->
         [url |-> StorageUrl(outfitFileName("t1", "b1", 0)), source |-> "select"]] }

Init ==
    /\ EmptyWardrobe
    /\ apiKey \in ApiKeys
    /\ config \in Configs
    /\ now = 1
    /\ history = << >>
    /\ callLog = << >>
    /\ inFlight = FALSE
    /\ cacheRef = [x \in {} |-> [url |-> NoUrl, isComposite |-> FALSE]]
    /\ outfitCache = EmptyMap
    /\ nanoCache = EmptyMap
    /\ transferCache = EmptyMap
    /\ composites \in InitialComposites
    /\ outfitRows = << >>
    /\ blobs = [x \in {} |-> ""]
    /\ generatedImage = NoUrl
    /\ isGenerating = FALSE
    /\ error = NULL
    /\ isComposite = FALSE
    /\ liveObjectUrls = {}
    /\ pc = [c \in Calls |-> "idle"]
    /\ op = [c \in Calls |-> IdleOp]
    /\ nInvocations = 0
    /\ nImages = 0

(***************************************************************************)
(* The requests a caller can make.                                         *)
(***************************************************************************)
SelectRequest(top, bottom) ==
    [mode |-> "select", key |-> outfitHookKey(top, bottom),
     gkey |-> cacheKeyFor(top.imageUrl, bottom.imageUrl, DEFAULT_BODY_PATH, buildPrompt),
     topId |-> top.id, bottomId |-> bottom.id]

NanoRequest(occasion) ==
    [mode |-> "nano", key |-> nanoHookKey(occasion),
     gkey |-> nanoKeyFor(DEFAULT_BODY_PATH, customPromptFor(occasion)),
     topId |-> "", bottomId |-> ""]

\* gkey is completed with the object URL once it is created
TransferRequest(file) ==
    [mode |-> "transfer", key |-> transferHookKey(file), gkey |-> "",
     topId |-> "", bottomId |-> ""]

\* a call takes the first free slot
Free(c) == pc[c] \in {"idle", "done"}

FirstFree(c) == Free(c) /\ \A d \in Calls : d < c => ~Free(d)

Active(c) == ~Free(c)

\* URL.createObjectURL(inspirationFile)
createObjectURL(urls, url) == urls \cup {url}

\* mutant: the URL is not released
revokeObjectURLSkipped(urls, url) == urls

\* URL.revokeObjectURL(inspirationUrl)
revokeObjectURL(urls, url) == urls \ {url}

\* mutant: the guard is never taken
InFlightGuardMissing(flag) == FALSE

\* if (inFlightRef.current) return;
InFlightGuard(flag) == flag

\* mutant: canGenerate() counts against a window cap one too high
HookRateLimitCheckLateCap(h, cfg, t) == canMakeCall(h, [cfg EXCEPT !.maxCalls = @ + 1], t)

\* mutant: canGenerate() does not apply the cooldown
HookRateLimitCheckNoCooldown(h, cfg, t) == canMakeCall(h, [cfg EXCEPT !.cooldownMs = 0], t)

\* mutant: the hook does not consult the limiter
HookRateLimitCheckSkipped(h, cfg, t) == [allowed |-> TRUE, reason |-> NULL, waitTime |-> 0]

\* mutant: a denial reports a wait one millisecond short
HookRateLimitCheckShortWait(h, cfg, t) ==
    LET decision == canMakeCall(h, cfg, t)
    IN  IF decision.allowed THEN decision
        ELSE [decision EXCEPT !.waitTime = decision.waitTime - 1]

\* the hook's rate-limit gate: the decision of canGenerate()
HookRateLimitCheck(h, cfg, t) == canMakeCall(h, cfg, t)

\* mutant: the decision's reason is dropped
DenialMessageGeneric(decision) == "Rate limit exceeded"

\* rateLimitCheck.reason || "Rate limit exceeded"
DenialMessage(decision) == IF decision.reason # NULL THEN decision.reason ELSE "Rate limit exceeded"

\* mutant: the generators do not look at the key
MissingApiKeyIgnored(key) == FALSE

\* if (!import.meta.env.VITE_GOOGLE_API_KEY) of the three generators
MissingApiKey(key) == key = ""

\* the cache the generator of a mode consults
GenCache(mode) ==
    CASE mode = "select" -> outfitCache
      [] mode = "nano" -> nanoCache
      [] mode = "transfer" -> transferCache

(***************************************************************************)
(* How a segment of a hook operation ends.                                 *)
(***************************************************************************)
\* the operation is suspended at an await
Suspend(c, o, at) ==
    /\ pc' = [pc EXCEPT ![c] = at]
    /\ op' = [op EXCEPT ![c] = o]
    /\ UNCHANGED <<uiVars, inFlight, cacheRef, liveObjectUrls>>

\* what stays known of a call once it has returned: its locals are gone
Summary(o) == [IdleOp EXCEPT !.mode = o.mode, !.key = o.key, !.outcome = o.outcome]

\* mutant: the finally block leaves isGenerating and the in-flight flag as they are
FinishWithoutFinally(c, o, img, comp, err, cache) ==
    /\ generatedImage' = img
    /\ isComposite' = comp
    /\ error' = err
    /\ UNCHANGED <<isGenerating, inFlight>>
    /\ cacheRef' = cache
    /\ liveObjectUrls' = IF o.objUrl # "" THEN revokeObjectURL(liveObjectUrls, o.objUrl)
                         ELSE liveObjectUrls
    /\ pc' = [pc EXCEPT ![c] = "done"]
    /\ op' = [op EXCEPT ![c] = Summary(o)]

\* the operation returns through its finally block
Finish(c, o, img, comp, err, cache) ==
    /\ generatedImage' = img
    /\ isComposite' = comp
    /\ error' = err
    /\ isGenerating' = FALSE
    /\ inFlight' = FALSE
    /\ cacheRef' = cache
    /\ liveObjectUrls' = IF o.objUrl # "" THEN revokeObjectURL(liveObjectUrls, o.objUrl)
                         ELSE liveObjectUrls
    /\ pc' = [pc EXCEPT ![c] = "done"]
    /\ op' = [op EXCEPT ![c] = Summary(o)]

FailMessage(mode) ==
    CASE mode = "select" -> "Failed to generate outfit. Please try again."
      [] mode = "nano" -> "Failed to generate nano outfit. Please try again."
      [] mode = "transfer" -> "Failed to transfer outfit. Please try again."

\* mutant: the catch block sets no message
HookFailSilent(c, o) ==
    Finish(c, [o EXCEPT !.outcome = "failed"], NoUrl, FALSE, NULL, cacheRef)

\* the catch block
HookFail(c, o) ==
    Finish(c, [o EXCEPT !.outcome = "failed"], NoUrl, FALSE, FailMessage(o.mode), cacheRef)

\* mutant: the result is shown but not written to the memory tier
HookOkNotCached(c, o, url) ==
    Finish(c, [o EXCEPT !.outcome = "ok"], url, FALSE, error, cacheRef)

\* setGeneratedImage(url); setIsComposite(false); cacheRef.current.set(key, ...)
HookOk(c, o, url) ==
    Finish(c, [o EXCEPT !.outcome = "ok"], url, FALSE, error,
           Put(cacheRef, o.key, [url |-> url, isComposite |-> FALSE]))

\* the generator returns: the hook's await of it resolves
GeneratorReturns(c, o, res) == Suspend(c, [o EXCEPT !.result = res], "result")

(***************************************************************************)
(* A call of generateOutfit / generateNanoOutfit / generateOutfitTransfer, *)
(* directly (via = "hook") or through the App handler of its mode          *)
(* (via = "app": handleSelect, handleNanoStyle, handleOutfitTransfer),     *)
(* up to its first await.                                                  *)
(***************************************************************************)
InvokeOp(c, req, via) ==
    /\ FirstFree(c)
    /\ nInvocations < MaxInvocations
    /\ nInvocations' = nInvocations + 1
    /\ LET appNoKey == via = "app" /\ apiKey = ""
           appCheck == via = "app" /\ ~appNoKey
           appDenied == appCheck /\ ~canMakeCall(history, config, now).allowed
           h1 == IF appCheck THEN HistoryAfterCheck(history, config, now) ELSE history
           enters == ~appNoKey /\ ~appDenied
           rejected == enters /\ InFlightGuard(inFlight)
           runs == enters /\ ~rejected
           objUrl == IF runs /\ req.mode = "transfer"
                     THEN objectUrlFor(nInvocations + 1) ELSE ""
           gkey == IF req.mode = "transfer"
                   THEN transferKeyFor(objUrl, DEFAULT_BODY_PATH) ELSE req.gkey
           hit == runs /\ req.key \in DOMAIN cacheRef
           decision == HookRateLimitCheck(h1, config, now)
           denied == runs /\ ~hit /\ ~decision.allowed
           starts == runs /\ ~hit /\ ~denied
           h2 == IF runs /\ ~hit THEN HistoryAfterCheck(h1, config, now) ELSE h1
           o0 == [IdleOp EXCEPT !.mode = req.mode, !.via = via, !.key = req.key,
                                !.gkey = gkey, !.topId = req.topId,
                                !.bottomId = req.bottomId, !.objUrl = objUrl,
                                !.rlChecks = (IF appCheck THEN 1 ELSE 0)
                                             + (IF runs /\ ~hit THEN 1 ELSE 0)]
       IN  /\ history' = IF starts THEN recordCall(h2, now) ELSE h2
           /\ callLog' = IF starts THEN Append(callLog, now) ELSE callLog
           /\ UNCHANGED <<wardrobeVars, apiKey, config, now, genCacheVars, durableVars, nImages>>
           /\ CASE appNoKey ->
                     /\ pc' = [pc EXCEPT ![c] = "done"]
                     /\ op' = [op EXCEPT ![c] = [o0 EXCEPT !.outcome = "app_nokey"]]
                     /\ UNCHANGED <<uiVars, inFlight, cacheRef, liveObjectUrls>>
                [] appDenied ->
                     /\ pc' = [pc EXCEPT ![c] = "done"]
                     /\ op' = [op EXCEPT ![c] = [o0 EXCEPT !.outcome = "app_denied"]]
                     /\ UNCHANGED <<uiVars, inFlight, cacheRef, liveObjectUrls>>
                [] rejected ->
                     /\ pc' = [pc EXCEPT ![c] = "done"]
                     /\ op' = [op EXCEPT ![c] = [o0 EXCEPT !.outcome = "rejected"]]
                     /\ UNCHANGED <<uiVars, inFlight, cacheRef, liveObjectUrls>>
                [] hit ->
                     /\ generatedImage' = cacheRef[req.key].url
                     /\ isComposite' = IF req.mode = "select"
                                       THEN cacheRef[req.key].isComposite ELSE FALSE
                     /\ error' = NULL
                     /\ inFlight' = FALSE
                     /\ pc' = [pc EXCEPT ![c] = "done"]
                     /\ op' = [op EXCEPT ![c] = [o0 EXCEPT !.outcome = "cache_hit",
                                                           !.hit = cacheRef[req.key].url]]
                     /\ liveObjectUrls' =
                            IF objUrl # ""
                            THEN revokeObjectURL(createObjectURL(liveObjectUrls, objUrl), objUrl)
                            ELSE liveObjectUrls
                     /\ UNCHANGED <<isGenerating, cacheRef>>
                [] denied ->
                     /\ error' = DenialMessage(decision)
                     /\ generatedImage' = NoUrl
                     /\ isComposite' = FALSE
                     /\ inFlight' = FALSE
                     /\ pc' = [pc EXCEPT ![c] = "done"]
                     /\ op' = [op EXCEPT ![c] = [o0 EXCEPT !.outcome = "denied",
                                                           !.reason = DenialMessage(decision)]]
                     /\ liveObjectUrls' =
                            IF objUrl # ""
                            THEN revokeObjectURL(createObjectURL(liveObjectUrls, objUrl), objUrl)
                            ELSE liveObjectUrls
                     /\ UNCHANGED <<isGenerating, cacheRef>>
                [] starts ->
                     LET o1 == [o0 EXCEPT !.outcome = "running", !.recorded = 1,
                                          !.via = "hook", !.rlChecks = 1]
                     IN  /\ isGenerating' = TRUE
                         /\ error' = NULL
                         /\ isComposite' = FALSE
                         /\ inFlight' = TRUE
                         /\ liveObjectUrls' = IF objUrl # ""
                                              THEN createObjectURL(liveObjectUrls, objUrl)
                                              ELSE liveObjectUrls
                         /\ UNCHANGED <<generatedImage, cacheRef>>
                         /\ IF MissingApiKey(apiKey)
                            THEN /\ pc' = [pc EXCEPT ![c] = "result"]
                                 /\ op' = [op EXCEPT ![c] = [o1 EXCEPT !.result = NoKeyResult]]
                            ELSE IF req.mode = "select"
                            THEN /\ pc' = [pc EXCEPT ![c] = "lookup"]
                                 /\ op' = [op EXCEPT ![c] = o1]
                            ELSE IF gkey \in DOMAIN GenCache(req.mode)
                            THEN /\ pc' = [pc EXCEPT ![c] = "result"]
                                 /\ op' = [op EXCEPT ![c] =
                                        [o1 EXCEPT !.result = OkResult(GenCache(req.mode)[gkey])]]
                            ELSE /\ pc' = [pc EXCEPT ![c] = "fetch"]
                                 /\ op' = [op EXCEPT ![c] = o1]

generateOutfit(c, top, bottom) == InvokeOp(c, SelectRequest(top, bottom), "hook")

generateNanoOutfit(c, occasion) == InvokeOp(c, NanoRequest(occasion), "hook")

generateOutfitTransfer(c, file) == InvokeOp(c, TransferRequest(file), "hook")

handleSelect(c, top, bottom) == InvokeOp(c, SelectRequest(top, bottom), "app")

handleNanoStyle(c, occasion) == InvokeOp(c, NanoRequest(occasion), "app")

handleOutfitTransfer(c, file) == InvokeOp(c, TransferRequest(file), "app")

(***************************************************************************)
(* generateOutfitInternal and its siblings, one action per await.          *)
(***************************************************************************)
OtherVarsOfGenerator == <<apiKey, limiterVars, now, nInvocations, wardrobeVars>>

\* await getCachedComposite(topId, bottomId) resolves; a failed query yields null
LookupReturns(c) ==
    /\ pc[c] = "lookup"
    /\ \E queryOk \in BOOLEAN :
         LET o == op[c]
             cachedUrl == IF queryOk THEN getCachedComposite(composites, o.topId, o.bottomId)
                          ELSE NoUrl
         IN  IF cachedUrl # NoUrl
             THEN GeneratorReturns(c, o, OkResult(cachedUrl))
             ELSE IF o.gkey \in DOMAIN outfitCache
             THEN Suspend(c, [o EXCEPT !.dataUrl = outfitCache[o.gkey],
                                       !.fileName = outfitFileName(o.topId, o.bottomId, now)],
                          "upload")
             ELSE Suspend(c, o, "fetch")
    /\ UNCHANGED <<OtherVarsOfGenerator, genCacheVars, durableVars, nImages>>

\* await toBase64(...) resolves or rejects; on success the remote call is issued
FetchReturns(c) ==
    /\ pc[c] = "fetch"
    /\ \E fetchOk \in BOOLEAN :
         LET o == op[c]
         IN  IF fetchOk
             THEN Suspend(c, [o EXCEPT !.remoteCalls = @ + 1, !.calledAt = Append(@, now)],
                          "remote")
             ELSE HookFail(c, o)
    /\ UNCHANGED <<OtherVarsOfGenerator, genCacheVars, durableVars, nImages>>

\* cache.set(key, dataUrl) of the mode's generator
GenCachePut(mode, k, v) ==
    /\ outfitCache' = IF mode = "select" THEN Put(outfitCache, k, v) ELSE outfitCache
    /\ nanoCache' = IF mode = "nano" THEN Put(nanoCache, k, v) ELSE nanoCache
    /\ transferCache' = IF mode = "transfer" THEN Put(transferCache, k, v) ELSE transferCache

\* await genAI.models.generateContent resolves with an inline image
RemoteImage(c) ==
    /\ pc[c] = "remote"
    /\ nImages' = nImages + 1
    /\ LET dataUrl == DataUrl([n |-> nImages + 1, request |-> op[c].key])
           o == [op[c] EXCEPT !.responses = @ + 1, !.dataUrl = dataUrl]
       IN  /\ GenCachePut(o.mode, o.gkey, dataUrl)
           /\ IF o.mode = "select"
              THEN Suspend(c, [o EXCEPT !.fileName = outfitFileName(o.topId, o.bottomId, now)],
                           "upload")
              ELSE GeneratorReturns(c, o, OkResult(dataUrl))
    /\ UNCHANGED <<OtherVarsOfGenerator, durableVars>>

\* ... resolves with no part carrying inline data
RemoteNoImage(c) ==
    /\ pc[c] = "remote"
    /\ \E text \in RemoteTexts :
         GeneratorReturns(c, [op[c] EXCEPT !.responses = @ + 1, !.text = text],
                          NoImageResult(text))
    /\ UNCHANGED <<OtherVarsOfGenerator, genCacheVars, durableVars, nImages>>

\* the catch of the retry loop, for the error the remote call threw
RetryCatch(c, err) ==
    LET o == [op[c] EXCEPT !.err = err,
                           !.quotaErrors = @ + (IF isQuotaError(err) THEN 1 ELSE 0)]
    IN  IF RetryGivesUp(err, o.attempt)
        THEN GeneratorReturns(c, o, ApiErrorResult(err))
        ELSE LET attempt == o.attempt + 1
                 waitMs == BackoffWaitMs(err, attempt)
             IN  Suspend(c, [o EXCEPT !.attempt = attempt, !.waitMs = waitMs,
                                      !.wakeAt = now + waitMs, !.nWaits = @ + 1],
                         "backoff")

\* ... rejects
RemoteError(c) ==
    /\ pc[c] = "remote"
    /\ \E err \in RemoteErrors : RetryCatch(c, err)
    /\ UNCHANGED <<OtherVarsOfGenerator, genCacheVars, durableVars, nImages>>

\* the setTimeout of the backoff fires and the loop calls the remote again
BackoffFires(c) ==
    /\ pc[c] = "backoff"
    /\ now >= op[c].wakeAt
    /\ Suspend(c, [op[c] EXCEPT !.remoteCalls = @ + 1, !.calledAt = Append(@, now)],
               "remote")
    /\ UNCHANGED <<OtherVarsOfGenerator, genCacheVars, durableVars, nImages>>

\* await uploadImage("GENERATED", file, file.name) in the generator; a failure is caught
UploadReturns(c) ==
    /\ pc[c] = "upload"
    /\ \E uploadOk \in BOOLEAN :
         LET o == op[c]
         IN  IF uploadOk
             THEN /\ blobs' = Put(blobs, o.fileName, o.dataUrl.ref)
                  /\ Suspend(c, [o EXCEPT !.storageUrl = StorageUrl(o.fileName)], "save")
             ELSE /\ blobs' = blobs
                  /\ GeneratorReturns(c, o, OkResult(o.dataUrl))
    /\ UNCHANGED <<OtherVarsOfGenerator, genCacheVars, composites, outfitRows, nImages>>

\* await saveCachedComposite(topId, bottomId, storageUrl); a failure is caught
SaveReturns(c) ==
    /\ pc[c] = "save"
    /\ \E saveOk \in BOOLEAN :
         LET o == op[c]
         IN  IF saveOk
             THEN /\ composites' = saveCachedComposite(composites, o.topId, o.bottomId,
                                                      o.storageUrl)
                  /\ GeneratorReturns(c, o, OkResult(o.storageUrl))
             ELSE /\ composites' = composites
                  /\ GeneratorReturns(c, o, OkResult(o.dataUrl))
    /\ UNCHANGED <<OtherVarsOfGenerator, genCacheVars, blobs, outfitRows, nImages>>

\* mutant: every mode falls back to the composer
UsesCompositeFallbackEveryMode(mode) == TRUE

\* the else branch of the hook operation: generateOutfit calls imageComposer, the
\* other two throw
UsesCompositeFallback(mode) == mode = "select"

(***************************************************************************)
(* The hook after its await of the generator.                              *)
(***************************************************************************)
HookResume(c) ==
    /\ pc[c] = "result"
    /\ LET o == op[c]
           res == o.result
       IN  IF res.success /\ res.imageUrl # NoUrl
           THEN IF o.mode = "select"
                THEN HookOk(c, o, res.imageUrl)
                ELSE IF IsDataUrl(res.imageUrl)
                THEN Suspend(c, [o EXCEPT !.fileName =
                                    IF o.mode = "nano" THEN nanoFileName(now)
                                    ELSE transferFileName(now)],
                             "hook_upload")
                ELSE Suspend(c, [o EXCEPT !.storageUrl = res.imageUrl], "hook_save")
           ELSE IF UsesCompositeFallback(o.mode)
                THEN Suspend(c, o, "compose")
                ELSE HookFail(c, o)
    /\ UNCHANGED <<OtherVarsOfGenerator, genCacheVars, durableVars, nImages>>

\* await imageComposer.createComposite(top.imageUrl, bottom.imageUrl)
ComposeReturns(c) ==
    /\ pc[c] = "compose"
    /\ \E composeOk \in BOOLEAN :
         LET o == op[c]
             url == CompositeUrl(ItemUrl(TopItems, o.topId), ItemUrl(BottomItems, o.bottomId))
         IN  IF composeOk
             THEN Finish(c, [o EXCEPT !.outcome = "composite"], url, TRUE,
                         "Using composite image (AI generation unavailable)",
                         Put(cacheRef, o.key, [url |-> url, isComposite |-> TRUE]))
             ELSE HookFail(c, o)
    /\ UNCHANGED <<OtherVarsOfGenerator, genCacheVars, durableVars, nImages>>

\* finalUrl = await uploadImage("GENERATED", file, file.name) in the hook (nano, transfer)
HookUploadReturns(c) ==
    /\ pc[c] = "hook_upload"
    /\ \E uploadOk \in BOOLEAN :
         LET o == op[c]
         IN  IF uploadOk
             THEN /\ blobs' = Put(blobs, o.fileName, o.result.imageUrl.ref)
                  /\ Suspend(c, [o EXCEPT !.storageUrl = StorageUrl(o.fileName)], "hook_save")
             ELSE /\ blobs' = blobs
                  /\ HookFail(c, o)
    /\ UNCHANGED <<OtherVarsOfGenerator, genCacheVars, composites, outfitRows, nImages>>

\* await saveGeneratedOutfit({ generatedImageUrl: finalUrl, generatorSource })
HookSaveReturns(c) ==
    /\ pc[c] = "hook_save"
    /\ \E saveOk \in BOOLEAN :
         LET o == op[c]
         IN  IF saveOk
             THEN /\ outfitRows' = saveGeneratedOutfit(outfitRows, o.storageUrl, o.mode)
                  /\ HookOk(c, o, o.storageUrl)
             ELSE /\ outfitRows' = outfitRows
                  /\ HookFail(c, o)
    /\ UNCHANGED <<OtherVarsOfGenerator, genCacheVars, composites, blobs, nImages>>

(***************************************************************************)
(* The rest of the program and its environment.                            *)
(***************************************************************************)
\* clearGeneratedImage
clearGeneratedImage ==
    /\ generatedImage' = NoUrl
    /\ isComposite' = FALSE
    /\ error' = NULL
    /\ UNCHANGED <<wardrobeVars, apiKey, now, limiterVars, inFlight, cacheRef, genCacheVars,
                   durableVars, isGenerating, liveObjectUrls, callVars, nImages>>

\* App calls canGenerate() on every render
RenderCanGenerate ==
    /\ history' = HistoryAfterCheck(history, config, now)
    /\ history' # history
    /\ UNCHANGED <<wardrobeVars, apiKey, now, config, callLog, inFlight, cacheRef, genCacheVars, durableVars,
                   uiVars, liveObjectUrls, callVars, nImages>>

\* time passes: a millisecond, or up to the next backoff timer
Advance ==
    /\ \/ now < MaxTime /\ now' = now + 1
       \/ \E c \in Calls : pc[c] = "backoff" /\ op[c].wakeAt > now /\ now' = op[c].wakeAt
    /\ UNCHANGED <<wardrobeVars, apiKey, limiterVars, inFlight, cacheRef, genCacheVars, durableVars,
                   uiVars, liveObjectUrls, callVars, nImages>>

Next ==
    \/ \E c \in Calls, top \in TopItems, bottom \in BottomItems : generateOutfit(c, top, bottom)
    \/ \E c \in Calls, occasion \in Occasions : generateNanoOutfit(c, occasion)
    \/ \E c \in Calls, file \in Files : generateOutfitTransfer(c, file)
    \/ \E c \in Calls, top \in TopItems, bottom \in BottomItems : handleSelect(c, top, bottom)
    \/ \E c \in Calls, occasion \in Occasions : handleNanoStyle(c, occasion)
    \/ \E c \in Calls, file \in Files : handleOutfitTransfer(c, file)
    \/ \E c \in Calls : LookupReturns(c)
    \/ \E c \in Calls : FetchReturns(c)
    \/ \E c \in Calls : RemoteImage(c)
    \/ \E c \in Calls : RemoteNoImage(c)
    \/ \E c \in Calls : RemoteError(c)
    \/ \E c \in Calls : BackoffFires(c)
    \/ \E c \in Calls : UploadReturns(c)
    \/ \E c \in Calls : SaveReturns(c)
    \/ \E c \in Calls : HookResume(c)
    \/ \E c \in Calls : ComposeReturns(c)
    \/ \E c \in Calls : HookUploadReturns(c)
    \/ \E c \in Calls : HookSaveReturns(c)
    \/ clearGeneratedImage
    \/ RenderCanGenerate
    \/ Advance

Spec == Init /\ [][Next]_vars

(***************************************************************************)
(* The retry loop's catch over every retry hint of a bounded alphabet: the *)
(* first remote call of a paired generation is pending, and it fails with  *)
(* a quota error whose RetryInfo detail carries an arbitrary retryDelay.   *)
(***************************************************************************)
MaxHintLen == 7

HintAlphabet == {"0", "2", "3", "5", ".", "s"}

\* the retryDelay strings; the empty one is falsy, as an absent detail is
RetryHints == UNION { [1..n -> HintAlphabet] : n \in 0..MaxHintLen }

HintedErrors ==
    { [ecode |-> 429, status |-> 0, code |-> 0, estatus |-> "", statusMessage |-> "",
       hasMessage |-> TRUE, message |-> "quota", json |-> "{429}", retryDelay |-> h]
      : h \in RetryHints }

FirstCallPending ==
    [IdleOp EXCEPT !.mode = "select", !.via = "hook",
                   !.key = outfitHookKey([id |-> "t1"], [id |-> "b2"]),
                   !.gkey = cacheKeyFor("tops_1.png", "bottoms_1.png", DEFAULT_BODY_PATH,
                                        buildPrompt),
                   !.topId = "t1", !.bottomId = "b2", !.outcome = "running",
                   !.recorded = 1, !.rlChecks = 1, !.remoteCalls = 1,
                   !.calledAt = <<1>>]

HintInit ==
    /\ EmptyWardrobe
    /\ apiKey = "key"
    /\ config \in Configs
    /\ now = 1
    /\ history = <<1>>
    /\ callLog = <<1>>
    /\ inFlight = TRUE
    /\ cacheRef = [x \in {} |-> [url |-> NoUrl, isComposite |-> FALSE]]
    /\ outfitCache = EmptyMap
    /\ nanoCache = EmptyMap
    /\ transferCache = EmptyMap
    /\ composites \in InitialComposites
    /\ outfitRows = << >>
    /\ blobs = [x \in {} |-> ""]
    /\ generatedImage = NoUrl
    /\ isGenerating = TRUE
    /\ error = NULL
    /\ isComposite = FALSE
    /\ liveObjectUrls = {}
    /\ pc = [c \in Calls |-> IF c = 1 THEN "remote" ELSE "idle"]
    /\ op = [c \in Calls |-> IF c = 1 THEN FirstCallPending ELSE IdleOp]
    /\ nInvocations = 1
    /\ nImages = 0

\* the pending call rejects with a hinted quota error
HintedRemoteError(c) ==
    /\ pc[c] = "remote"
    /\ \E err \in HintedErrors : RetryCatch(c, err)
    /\ UNCHANGED <<OtherVarsOfGenerator, genCacheVars, durableVars, nImages>>

HintNext == \E c \in Calls : HintedRemoteError(c)

HintSpec == HintInit /\ [][HintNext]_vars

(***************************************************************************)
(* The rate limiter on its own, over a range of configurations: calls are  *)
(* accepted the way the hook accepts them (canGenerate() allows, then      *)
(* recordCall()), App renders call canGenerate(), and time passes.         *)
(***************************************************************************)
LimiterMaxTime == 6
MaxConfigValue == 3

LimiterConfigs ==
    [cooldownMs : 0..(MaxConfigValue - 1), maxCalls : 1..MaxConfigValue,
     windowMs : 1..(MaxConfigValue + 1)]

LimiterInit ==
    /\ EmptyWardrobe
    /\ apiKey = "key"
    /\ config \in LimiterConfigs
    /\ now = 1
    /\ history = << >>
    /\ callLog = << >>
    /\ inFlight = FALSE
    /\ cacheRef = [x \in {} |-> [url |-> NoUrl, isComposite |-> FALSE]]
    /\ outfitCache = EmptyMap
    /\ nanoCache = EmptyMap
    /\ transferCache = EmptyMap
    /\ composites \in InitialComposites
    /\ outfitRows = << >>
    /\ blobs = [x \in {} |-> ""]
    /\ generatedImage = NoUrl
    /\ isGenerating = FALSE
    /\ error = NULL
    /\ isComposite = FALSE
    /\ liveObjectUrls = {}
    /\ pc = [c \in Calls |-> "idle"]
    /\ op = [c \in Calls |-> IdleOp]
    /\ nInvocations = 0
    /\ nImages = 0

\* canGenerate() allows and the call is recorded
LimiterAccept ==
    /\ HookRateLimitCheck(history, config, now).allowed
    /\ history' = recordCall(HistoryAfterCheck(history, config, now), now)
    /\ callLog' = Append(callLog, now)
    /\ UNCHANGED <<wardrobeVars, apiKey, now, config, inFlight, cacheRef, genCacheVars, durableVars,
                   uiVars, liveObjectUrls, callVars, nImages>>

LimiterTick ==
    /\ now < LimiterMaxTime
    /\ now' = now + 1
    /\ UNCHANGED <<wardrobeVars, apiKey, limiterVars, inFlight, cacheRef, genCacheVars, durableVars,
                   uiVars, liveObjectUrls, callVars, nImages>>

LimiterNext == LimiterAccept \/ RenderCanGenerate \/ LimiterTick

LimiterSpec == LimiterInit /\ [][LimiterNext]_vars

(***************************************************************************)
(* The keys of the paired mode over ids that may hold the delimiters: each *)
(* call is a request for a (top, bottom) pair of arbitrary ids, and its    *)
(* step computes the hook's memory-tier key and the pair key.              *)
(***************************************************************************)
MaxIdLen == 2

IdAlphabet == {"a", ":", "_"}

RECURSIVE IdsOfLen(_)
IdsOfLen(n) == IF n = 0 THEN {""} ELSE {s \o ch : s \in IdsOfLen(n - 1), ch \in IdAlphabet}

\* the non-empty ids
ItemIds == UNION { IdsOfLen(n) : n \in 1..MaxIdLen }

KeyInit ==
    /\ EmptyWardrobe
    /\ apiKey = "key"
    /\ config \in Configs
    /\ now = 1
    /\ history = << >>
    /\ callLog = << >>
    /\ inFlight = FALSE
    /\ cacheRef = [x \in {} |-> [url |-> NoUrl, isComposite |-> FALSE]]
    /\ outfitCache = EmptyMap
    /\ nanoCache = EmptyMap
    /\ transferCache = EmptyMap
    /\ composites \in InitialComposites
    /\ outfitRows = << >>
    /\ blobs = [x \in {} |-> ""]
    /\ generatedImage = NoUrl
    /\ isGenerating = FALSE
    /\ error = NULL
    /\ isComposite = FALSE
    /\ liveObjectUrls = {}
    /\ pc = [c \in Calls |-> "idle"]
    /\ op \in [Calls -> {[IdleOp EXCEPT !.mode = "select", !.topId = t, !.bottomId = b]
                            : t \in ItemIds, b \in ItemIds}]
    /\ nInvocations = 0
    /\ nImages = 0

\* const key = `outfit::${top.id}::${bottom.id}`, and the pair key of the same ids
KeyRequest(c) ==
    /\ pc[c] = "idle"
    /\ pc' = [pc EXCEPT ![c] = "keyed"]
    /\ op' = [op EXCEPT ![c].key = outfitHookKey([id |-> op[c].topId], [id |-> op[c].bottomId]),
                        ![c].gkey = pairKey(op[c].topId, op[c].bottomId)]
    /\ UNCHANGED <<wardrobeVars, apiKey, now, limiterVars, inFlight, cacheRef, genCacheVars, durableVars,
                   uiVars, liveObjectUrls, nInvocations, nImages>>

KeyNext == \E c \in Calls : KeyRequest(c)

KeySpec == KeyInit /\ [][KeyNext]_vars

(***************************************************************************)
(* The rate limiter with reconfiguration at any moment.                    *)
(***************************************************************************)
\* mutant: a reconfiguration starts a new history
updateConfigResetsHistory(cfg) ==
    /\ cfg # config
    /\ config' = cfg
    /\ history' = << >>
    /\ UNCHANGED <<wardrobeVars, apiKey, now, callLog, inFlight, cacheRef, genCacheVars, durableVars,
                   uiVars, liveObjectUrls, callVars, nImages>>

\* rateLimiter.updateConfig({ cooldownMs, maxCalls, windowMs })
updateConfig(cfg) ==
    /\ cfg # config
    /\ config' = cfg
    /\ UNCHANGED <<wardrobeVars, apiKey, now, history, callLog, inFlight, cacheRef, genCacheVars,
                   durableVars, uiVars, liveObjectUrls, callVars, nImages>>

ReconfigNext == LimiterNext \/ \E cfg \in LimiterConfigs : updateConfig(cfg)

ReconfigSpec == LimiterInit /\ [][ReconfigNext]_vars

(***************************************************************************)
(* The classification of the errors of the remote call: the pending call   *)
(* rejects with an error whose code and status fields hold any mix of      *)
(* values, and the catch of the retry loop classifies it.                  *)
(***************************************************************************)
\* a code field: absent, 429, or another code
ErrorCodes == {0, 429, 500}

\* a status field: absent, the marker, or another status
ErrorStatuses == {"", "RESOURCE_EXHAUSTED", "INTERNAL"}

ClassifiedErrors ==
    { [ecode |-> e, status |-> s, code |-> k, estatus |-> es, statusMessage |-> sm,
       hasMessage |-> TRUE, message |-> "failure", json |-> "{}", retryDelay |-> NoHint]
      : e \in ErrorCodes, s \in ErrorCodes, k \in ErrorCodes,
        es \in ErrorStatuses, sm \in ErrorStatuses }

ClassifiedRemoteError(c) ==
    /\ pc[c] = "remote"
    /\ \E err \in ClassifiedErrors : RetryCatch(c, err)
    /\ UNCHANGED <<OtherVarsOfGenerator, genCacheVars, durableVars, nImages>>

ClassifyNext == \E c \in Calls : ClassifiedRemoteError(c)

ClassifySpec == HintInit /\ [][ClassifyNext]_vars

(***************************************************************************)
(* The wardrobe (lib/supabase.ts): App.handleFileUpload starts             *)
(* addClothingItem for every file of a selection before it awaits any of   *)
(* them, deleteClothingItem removes an item; one action per await.  A file *)
(* name is the sequence of its dot-separated parts, a public URL the       *)
(* sequence of its slash-separated parts.                                  *)
(***************************************************************************)
MaxFiles == 2
MaxTasks == 3

UploadFiles ==
    { [name |-> <<"shirt", "png">>, content |-> "shirt"],
      [name |-> <<"jeans", "png">>, content |-> "jeans"],
      [name |-> <<"skirt", "jpg">>, content |-> "skirt"] }

Categories == {"tops", "bottoms"}

\* the files of one selection of the file input
FileSelections ==
    { fs \in UNION { [1..n -> UploadFiles] : n \in 1..MaxFiles } :
        \A i, j \in 1..Len(fs) : i # j => fs[i] # fs[j] }

\* whether the millisecond clock ticks before each call of Date.now() of a selection
ClockTicks(n) == { tk \in [1..n -> {0, 1}] : tk[1] = 0 }

RECURSIVE TicksUpTo(_, _)
TicksUpTo(tk, i) == IF i = 0 THEN 0 ELSE tk[i] + TicksUpTo(tk, i - 1)

\* imageFile.name.split(".").pop()
fileExtension(file) == file.name[Len(file.name)]

\* `${category}_${timestamp}.${fileExtension}`
clothingFileName(category, timestamp, file) ==
    category \o "_" \o ToString(timestamp) \o "." \o fileExtension(file)

\* getPublicUrl(data.path).publicUrl
getPublicUrl(bucket, path) == <<"https:", "", "project.supabase.co", "storage", bucket, path>>

\* urlParts[urlParts.length - 1] of image_url.split("/")
fileNameOfUrl(url) == url[Len(url)]

CategoryLabel(category) == IF category = "tops" THEN "Top" ELSE "Bottom"

NoFile == [name |-> << >>, content |-> ""]

IdleTask ==
    [kind |-> "none", stage |-> "none", category |-> "", file |-> NoFile, fileName |-> "",
     name |-> "", selection |-> 0, id |-> 0]

\* addClothingItem(name, category, imageFile) up to its await of uploadImage
addClothingItem(name, category, imageFile, timestamp, selection) ==
    [IdleTask EXCEPT !.kind = "add", !.stage = "upload", !.category = category,
                     !.file = imageFile, !.name = name, !.selection = selection,
                     !.fileName = clothingFileName(category, timestamp, imageFile)]

\* the change handler of the file input: Array.from(files).map(async ...) calls
\* addClothingItem for every file, each up to its first await
handleFileUpload(category, files, tk) ==
    LET listLength == Cardinality({it \in clothingItems : it.category = category})
        selection == Len(wardrobeTasks) + 1
        started == [i \in 1..Len(files) |->
                      addClothingItem(CategoryLabel(category) \o " " \o ToString(listLength + i),
                                      category, files[i], now + TicksUpTo(tk, i), selection)]
    IN  /\ Len(wardrobeTasks) + Len(files) <= MaxTasks
        /\ now + TicksUpTo(tk, Len(files)) <= MaxTime
        /\ now' = now + TicksUpTo(tk, Len(files))
        /\ wardrobeTasks' = wardrobeTasks \o started
        /\ UNCHANGED <<apiKey, limiterVars, inFlight, cacheRef, genCacheVars, durableVars,
                       uiVars, liveObjectUrls, callVars, nImages, clothingItems, clothingBlobs>>

SetStage(i, stage) == wardrobeTasks' = [wardrobeTasks EXCEPT ![i].stage = stage]

WardrobeFrame ==
    UNCHANGED <<apiKey, now, limiterVars, inFlight, cacheRef, genCacheVars, durableVars,
                uiVars, liveObjectUrls, callVars, nImages>>

\* await uploadImage("CLOTHING", imageFile, fileName): upload with upsert: true
AddUploadReturns(i) ==
    /\ wardrobeTasks[i].kind = "add"
    /\ wardrobeTasks[i].stage = "upload"
    /\ \E uploadOk \in BOOLEAN :
         IF uploadOk
         THEN /\ clothingBlobs' = Put(clothingBlobs, wardrobeTasks[i].fileName,
                                      wardrobeTasks[i].file.content)
              /\ SetStage(i, "insert")
         ELSE /\ clothingBlobs' = clothingBlobs
              /\ SetStage(i, "failed")
    /\ clothingItems' = clothingItems
    /\ WardrobeFrame

\* await supabase.from("clothing_items").insert({...}).select().single()
AddInsertReturns(i) ==
    /\ wardrobeTasks[i].kind = "add"
    /\ wardrobeTasks[i].stage = "insert"
    /\ \E insertOk \in BOOLEAN :
         IF insertOk
         THEN /\ clothingItems' = clothingItems \cup
                    { [id |-> i, name |-> wardrobeTasks[i].name,
                       category |-> wardrobeTasks[i].category,
                       image_url |-> getPublicUrl("clothing-images", wardrobeTasks[i].fileName),
                       file |-> wardrobeTasks[i].file.content,
                       selection |-> wardrobeTasks[i].selection] }
              /\ SetStage(i, "done")
         ELSE /\ clothingItems' = clothingItems
              /\ SetStage(i, "failed")
    /\ clothingBlobs' = clothingBlobs
    /\ WardrobeFrame

\* deleteClothingItem(id) up to its await of the row's image_url
deleteClothingItem(id) ==
    /\ Len(wardrobeTasks) < MaxTasks
    /\ wardrobeTasks' = Append(wardrobeTasks,
                               [IdleTask EXCEPT !.kind = "delete", !.stage = "fetch", !.id = id])
    /\ UNCHANGED <<clothingItems, clothingBlobs>>
    /\ WardrobeFrame

\* the select of image_url returns; .single() fails when the row is not there
DeleteFetchReturns(i) ==
    /\ wardrobeTasks[i].kind = "delete"
    /\ wardrobeTasks[i].stage = "fetch"
    /\ \E fetchOk \in BOOLEAN :
         LET rows == {it \in clothingItems : it.id = wardrobeTasks[i].id}
         IN  IF fetchOk /\ rows # {}
             THEN wardrobeTasks' =
                      [wardrobeTasks EXCEPT ![i].stage = "remove",
                            ![i].fileName = fileNameOfUrl((CHOOSE it \in rows : TRUE).image_url)]
             ELSE SetStage(i, "failed")
    /\ UNCHANGED <<clothingItems, clothingBlobs>>
    /\ WardrobeFrame

\* await deleteImage("CLOTHING", fileName): storage remove, which throws on error
deleteImage(i) ==
    /\ wardrobeTasks[i].kind = "delete"
    /\ wardrobeTasks[i].stage = "remove"
    /\ \E removeOk \in BOOLEAN :
         IF removeOk
         THEN /\ clothingBlobs' = [x \in DOMAIN clothingBlobs \ {wardrobeTasks[i].fileName}
                                     |-> clothingBlobs[x]]
              /\ SetStage(i, "deleteRow")
         ELSE /\ clothingBlobs' = clothingBlobs
              /\ SetStage(i, "failed")
    /\ clothingItems' = clothingItems
    /\ WardrobeFrame

\* await supabase.from("clothing_items").delete().eq("id", id)
DeleteRowReturns(i) ==
    /\ wardrobeTasks[i].kind = "delete"
    /\ wardrobeTasks[i].stage = "deleteRow"
    /\ \E deleteOk \in BOOLEAN :
         IF deleteOk
         THEN /\ clothingItems' = {it \in clothingItems : it.id # wardrobeTasks[i].id}
              /\ SetStage(i, "done")
         ELSE /\ clothingItems' = clothingItems
              /\ SetStage(i, "failed")
    /\ clothingBlobs' = clothingBlobs
    /\ WardrobeFrame

\* a millisecond passes
WardrobeTick ==
    /\ now < MaxTime
    /\ now' = now + 1
    /\ UNCHANGED <<wardrobeVars, apiKey, limiterVars, inFlight, cacheRef, genCacheVars,
                   durableVars, uiVars, liveObjectUrls, callVars, nImages>>

WardrobeNext ==
    \/ \E category \in Categories, files \in FileSelections :
          \E tk \in ClockTicks(Len(files)) : handleFileUpload(category, files, tk)
    \/ \E i \in 1..Len(wardrobeTasks) : AddUploadReturns(i)
    \/ \E i \in 1..Len(wardrobeTasks) : AddInsertReturns(i)
    \/ \E id \in 1..MaxTasks : deleteClothingItem(id)
    \/ \E i \in 1..Len(wardrobeTasks) : DeleteFetchReturns(i)
    \/ \E i \in 1..Len(wardrobeTasks) : deleteImage(i)
    \/ \E i \in 1..Len(wardrobeTasks) : DeleteRowReturns(i)
    \/ WardrobeTick

WardrobeInit ==
    /\ LimiterInit
    /\ config = [cooldownMs |-> 2, maxCalls |-> 2, windowMs |-> 3]

WardrobeSpec == WardrobeInit /\ [][WardrobeNext]_vars

(***************************************************************************)
(* The program when everything it awaits returns: some pending await       *)
(* resolves or rejects, and time passes while a backoff timer is pending.  *)
(***************************************************************************)
\* an await of slot c resolves or rejects
AwaitReturns(c) ==
    \/ LookupReturns(c)
    \/ FetchReturns(c)
    \/ RemoteImage(c)
    \/ RemoteNoImage(c)
    \/ RemoteError(c)
    \/ BackoffFires(c)
    \/ UploadReturns(c)
    \/ SaveReturns(c)
    \/ HookResume(c)
    \/ ComposeReturns(c)
    \/ HookUploadReturns(c)
    \/ HookSaveReturns(c)

\* time passes towards a pending backoff timer
TimerRuns == Advance /\ \E c \in Calls : pc[c] = "backoff" /\ op[c].wakeAt > now

EverythingReturns == (\E c \in Calls : AwaitReturns(c)) \/ TimerRuns

FairSpec == Init /\ [][Next]_vars /\ WF_vars(EverythingReturns)

(***************************************************************************)
(* Properties.                                                             *)
(***************************************************************************)
Range(f) == {f[x] : x \in DOMAIN f}

\* the step is a call that takes slot c
Invoked(c) == FirstFree(c) /\ nInvocations' = nInvocations + 1

\* the step in which the operation of slot c returns
Returns(c) == Active(c) /\ pc'[c] = "done"

\* the generator of slot c has called the remote API or is waiting to call it again
InRetryLoop(c) == pc[c] \in {"remote", "backoff"}

OneInFlight ==
    /\ Cardinality({c \in Calls : Active(c)}) <= 1
    /\ inFlight <=> (\E c \in Calls : Active(c))

RejectedCallTouchesNothing ==
    \A c \in Calls :
        (Invoked(c) /\ inFlight /\ (apiKey # "" \/ op'[c].via = "hook")) =>
            /\ op'[c].outcome \in {"rejected", "app_denied"}
            /\ pc'[c] = "done"
            /\ op'[c].rlChecks = (IF op'[c].via = "app" THEN 1 ELSE 0)
            /\ op'[c].via = "hook" => history' = history
            /\ \A d \in Calls \ {c} : pc'[d] = pc[d] /\ op'[d] = op[d]
            /\ UNCHANGED <<callLog, inFlight, cacheRef, genCacheVars, durableVars, uiVars,
                           liveObjectUrls, nImages>>

\* C1: across the three hook operations at most one generation is in flight at any
\* time, and a call made while the flag is set returns at once: it makes no
\* rate-limiter check of its own, records no call, and touches neither the remote
\* caller, the caches nor storage.
C1_AtMostOneInFlight == []OneInFlight /\ [][RejectedCallTouchesNothing]_vars

C1_Witness ==
    \E c, d \in Calls :
        /\ pc[c] = "done" /\ op[c].outcome = "rejected" /\ op[c].via = "hook"
        /\ pc[d] \in {"remote", "upload", "hook_save"}

\* C2: once a request has succeeded (its key is in the memory tier), a second request
\* with the same key, made while nothing is in flight, shows the cached URL and
\* performs no rate-limiter check, no recordCall and no remote call.
C2_RepeatRequestServedFromCache ==
    [][\A c \in Calls :
          (/\ Invoked(c)
           /\ apiKey # ""
           /\ ~inFlight
           /\ op'[c].key \in DOMAIN cacheRef) =>
              /\ op'[c].outcome = "cache_hit"
              /\ generatedImage' = cacheRef[op'[c].key].url
              /\ op'[c].rlChecks = 0
              /\ callLog' = callLog
              /\ pc'[c] = "done"]_vars

CooldownKept ==
    \A i \in 1..(Len(callLog) - 1) : callLog[i + 1] - callLog[i] >= config.cooldownMs

WindowCapKept ==
    \A i \in 1..Len(callLog) :
        i + config.maxCalls <= Len(callLog) =>
            callLog[i + config.maxCalls] - callLog[i] >= config.windowMs

RecordOnlyWhenAllowed ==
    callLog' # callLog =>
        /\ canMakeCall(history, config, now).allowed
        /\ callLog' = Append(callLog, now)
        /\ Len(history') >= 1 /\ Last(history') = now

\* C3: under a fixed configuration the recorded calls respect both limits: consecutive
\* recorded calls are at least cooldownMs apart, no interval of windowMs holds more
\* than maxCalls of them, and a call is recorded only when canMakeCall allows.
C3_RecordedCallsRespectLimits ==
    [](CooldownKept /\ WindowCapKept) /\ [][RecordOnlyWhenAllowed]_vars

C3_Witness ==
    /\ Len(callLog) = 2
    /\ config.maxCalls = 1
    /\ callLog[2] - callLog[1] >= config.windowMs

\* C4: when canMakeCall denies, the operation returns at once with the error set to
\* the decision's reason and a null image; no call is recorded, nothing is added to
\* the history, and neither the memory tier, the generator caches nor storage change.
C4_DenialRecordsNothing ==
    [][\A c \in Calls :
          (Invoked(c) /\ op'[c].outcome = "denied") =>
              /\ ~canMakeCall(history, config, now).allowed
              /\ error' = canMakeCall(history, config, now).reason
              /\ error' \in {"cooldown", "window limit"}
              /\ generatedImage' = NoUrl
              /\ isComposite' = FALSE
              /\ pc'[c] = "done"
              /\ callLog' = callLog
              /\ Len(history') <= Len(history)
              /\ Range(history') \subseteq Range(history)
              /\ ~inFlight'
              /\ UNCHANGED <<cacheRef, genCacheVars, durableVars, nImages, isGenerating>>]_vars

C4_Witness ==
    \E c \in Calls :
        /\ pc[c] = "done" /\ op[c].outcome = "denied"
        /\ op[c].reason = "window limit" /\ error = "window limit"
        /\ generatedImage = NoUrl

\* C5: recordCall is invoked exactly once by an operation that calls the remote API
\* and not at all by one whose generator returns without any remote call.
C5_RecordedIffRemoteCalled ==
    \A c \in Calls :
        pc[c] = "result" =>
            op[c].recorded = (IF op[c].remoteCalls >= 1 THEN 1 ELSE 0)

\* the remote returned an image to the operation of slot c
GotRemoteImage(c) == op[c].responses = 1 /\ op[c].dataUrl # NoUrl

\* C6: in every mode, an operation whose remote generation produced an image ends
\* showing an image and with no error, also when the upload or the record write
\* that follows fails.
C6_PersistenceFailureIsSwallowed ==
    [][\A c \in Calls :
          (Returns(c) /\ GotRemoteImage(c)) =>
              /\ generatedImage' # NoUrl
              /\ error' = NULL
              /\ op'[c].outcome = "ok"]_vars

\* C7: only a quota error is retried: after a non-quota failure the generator neither
\* waits nor calls the remote again, and its result is a failure carrying the
\* message of that error.
C7_NonQuotaFailureIsFinal ==
    \A c \in Calls :
        /\ pc[c] = "backoff" => isQuotaError(op[c].err)
        /\ (op[c].err # NoErr /\ ~isQuotaError(op[c].err)) =>
              /\ ~InRetryLoop(c)
              /\ op[c].result.success = FALSE
              /\ op[c].result.error = "Gemini API error. " \o op[c].err.message
              /\ op[c].remoteCalls = op[c].quotaErrors + 1
              /\ op[c].nWaits = op[c].quotaErrors

C7_Witness ==
    \E c \in Calls :
        /\ pc[c] = "result" /\ op[c].err # NoErr /\ ~isQuotaError(op[c].err)
        /\ op[c].remoteCalls = 2
        /\ op[c].result.error = "Gemini API error. server error"

\* C8: one operation calls the remote API at most 3 times, and not again after a
\* response.
C8_AtMostThreeRemoteCalls ==
    \A c \in Calls :
        /\ op[c].remoteCalls <= 3
        /\ op[c].responses <= 1
        /\ op[c].responses = 1 => ~InRetryLoop(c)

C8_Witness ==
    \E c \in Calls : pc[c] = "result" /\ op[c].remoteCalls = 3 /\ op[c].responses = 1

\* the delay the retry hint of a modelled error stands for
HintMs(err) ==
    CASE err.retryDelay = NoHint -> 20000
      [] err.retryDelay = <<"0", ".", "0", "0", "2", "s">> -> 2

\* C9: the wait before retry k is base * 2^(k-1), base being the delay of the retry
\* hint of the error that caused the retry, else 20000 ms (20000 then 40000 with no
\* hint); the retry is not made before the wait is over, and no wait follows the
\* final failed attempt.
C9_BackoffDoubles ==
    [](\A c \in Calls :
          /\ pc[c] = "backoff" =>
                /\ op[c].attempt \in {1, 2}
                /\ op[c].waitMs = HintMs(op[c].err) * (IF op[c].attempt = 1 THEN 1 ELSE 2)
                /\ op[c].err.retryDelay = NoHint =>
                      op[c].waitMs = (IF op[c].attempt = 1 THEN 20000 ELSE 40000)
                /\ op[c].wakeAt - op[c].waitMs <= now
                /\ op[c].nWaits = op[c].remoteCalls
          /\ pc[c] # "backoff" /\ op[c].remoteCalls >= 1 =>
                op[c].nWaits = op[c].remoteCalls - 1)
    /\ [][\A c \in Calls :
             (pc[c] = "backoff" /\ pc'[c] = "remote") => now >= op[c].wakeAt]_vars

C9_Witness ==
    \E c \in Calls :
        /\ pc[c] = "result" /\ op[c].remoteCalls = 3 /\ op[c].quotaErrors = 3
        /\ op[c].nWaits = 2 /\ op[c].waitMs = 40000

\* the same error without any quota marker
NonQuotaTwin(err) ==
    [err EXCEPT !.ecode = 0, !.status = 500, !.code = 0, !.estatus = "", !.statusMessage = ""]

\* C10: when all 3 attempts fail with quota errors the result carries the message of
\* the third error and is a quota-exceeded outcome, distinct from the outcome of a
\* failure that is not a quota error.
C10_QuotaExhaustionIsDistinct ==
    \A c \in Calls :
        (pc[c] = "result" /\ op[c].quotaErrors = 3) =>
            /\ op[c].result.success = FALSE
            /\ op[c].result.error = "Gemini API error. " \o op[c].err.message
            /\ op[c].result # ApiErrorResult(NonQuotaTwin(op[c].err))

RECURSIVE Pow10(_)
Pow10(n) == IF n <= 0 THEN 1 ELSE 10 * Pow10(n - 1)

\* <seconds>s
IsSeconds(s) ==
    /\ Len(s) >= 2
    /\ Last(s) = "s"
    /\ \A i \in 1..(Len(s) - 1) : s[i] \in Digits

\* <seconds>.<fraction>s, the point at position k
IsSecondsFraction(s, k) ==
    /\ Len(s) >= 4
    /\ Last(s) = "s"
    /\ k \in 2..(Len(s) - 2)
    /\ s[k] = "."
    /\ \A i \in (1..(Len(s) - 1)) \ {k} : s[i] \in Digits

\* the whole milliseconds a duration string stands for, or the fallback
HintMilliseconds(s, fallback) ==
    IF IsSeconds(s) THEN 1000 * ParseInt(SubSeq(s, 1, Len(s) - 1))
    ELSE IF \E k \in 1..Len(s) : IsSecondsFraction(s, k)
    THEN LET k == CHOOSE k \in 1..Len(s) : IsSecondsFraction(s, k)
             fraction == SubSeq(s, k + 1, Len(s) - 1)
         IN  1000 * ParseInt(SubSeq(s, 1, k - 1))
                 + (ParseInt(fraction) * 1000) \div Pow10(Len(fraction))
    ELSE fallback

\* C11: for a retry hint of the form <seconds>[.<fraction>]s getRetryMsFromError
\* returns seconds * 1000 plus the fraction in whole milliseconds ("2.5s" gives
\* 2500, "3s" gives 3000); for an absent hint or any other string it returns the
\* fallback, 20000.
C11_RetryHintParsed ==
    \A c \in Calls :
        pc[c] = "backoff" =>
            LET hint == op[c].err.retryDelay
                ms == getRetryMsFromError(op[c].err, fallbackMs)
            IN  /\ op[c].waitMs = ms
                /\ ms = HintMilliseconds(hint, 20000)
                /\ hint = <<"2", ".", "5", "s">> => ms = 2500
                /\ hint = <<"3", "s">> => ms = 3000
                /\ hint = NoHint => ms = 20000
                /\ hint = <<"2", ".", "s">> => ms = 20000

C11_Witness ==
    \E c \in Calls :
        /\ pc[c] = "backoff"
        /\ op[c].err.retryDelay = <<"2", ".", "5", "s">>
        /\ op[c].waitMs = 2500

\* the generator of slot c has returned the URL of the durable composite lookup
DurableHit(c) ==
    /\ pc[c] = "result"
    /\ op[c].mode = "select"
    /\ op[c].result.success
    /\ op[c].fileName = ""

\* C12: in paired mode, when the durable composite lookup returns a URL the operation
\* succeeds with exactly that URL and makes no remote call; when it returns the
\* memory tier holds that URL under the pair's key, entries never leave the memory
\* tier, and a request whose key is in the memory tier does no durable lookup.
C12_DurableHitFillsMemoryTier ==
    /\ [](\A c \in Calls :
            DurableHit(c) =>
                /\ pairKey(op[c].topId, op[c].bottomId) \in DOMAIN composites
                /\ op[c].result = OkResult(getCachedComposite(composites, op[c].topId,
                                                              op[c].bottomId))
                /\ op[c].remoteCalls = 0)
    /\ [][\A c \in Calls :
             /\ (pc[c] = "lookup" /\ pc'[c] = "result") => DurableHit(c)'
             /\ (DurableHit(c) /\ pc'[c] # pc[c]) =>
                    /\ Returns(c)
                    /\ op'[c].outcome = "ok"
                    /\ generatedImage' = op[c].result.imageUrl
                    /\ error' = NULL
                    /\ ~isComposite'
                    /\ op[c].key \in DOMAIN cacheRef'
                    /\ cacheRef'[op[c].key] = [url |-> op[c].result.imageUrl,
                                               isComposite |-> FALSE]
                    /\ nImages' = nImages
             /\ DOMAIN cacheRef \subseteq DOMAIN cacheRef'
             /\ (Invoked(c) /\ op'[c].key \in DOMAIN cacheRef) => pc'[c] = "done"]_vars

C12_Witness ==
    \E c \in Calls :
        /\ pc[c] = "done"
        /\ op[c].outcome = "cache_hit"
        /\ op[c].key = outfitHookKey([id |-> "t1"], [id |-> "b1"])
        /\ op[c].hit = StorageUrl(outfitFileName("t1", "b1", 0))
        /\ generatedImage = op[c].hit
        /\ nImages = 0

\* C13: a request whose key is in the memory tier is served from it in every state of
\* the rate limiter, also while canMakeCall denies for cooldown or window limit: no
\* rate-limiter check is made and the history is not read or changed.
C13_MemoryHitBypassesLimiter ==
    [][\A c \in Calls :
          (/\ Invoked(c)
           /\ apiKey # ""
           /\ ~inFlight
           /\ op'[c].key \in DOMAIN cacheRef
           /\ ~canMakeCall(history, config, now).allowed) =>
              /\ op'[c].outcome = "cache_hit"
              /\ generatedImage' = cacheRef[op'[c].key].url
              /\ error' = NULL
              /\ op'[c].rlChecks = 0
              /\ history' = history]_vars

\* the remote answered the operation of slot c with a response that carries no image
GotNoImage(c) == op[c].responses = 1 /\ op[c].dataUrl = NoUrl

\* C14: a remote response without inline image data makes the generator return a
\* failed result whose error carries the text parts of the response; the generator
\* neither waits nor calls the remote again, and nothing of the response is written
\* to a cache tier: the generator caches, the composite rows, the records and the
\* blobs stay as they are, and the memory tier gains at most the local composite of
\* the paired mode's fallback.  In nano and transfer mode the operation ends with an
\* error and a null image.
C14_NoImageIsFinal ==
    /\ [](\A c \in Calls :
            GotNoImage(c) =>
                /\ pc[c] \in {"result", "compose"}
                /\ op[c].remoteCalls = op[c].quotaErrors + 1
                /\ op[c].nWaits = op[c].quotaErrors
                /\ ~op[c].result.success
                /\ op[c].text \in RemoteTexts
                /\ op[c].text # "" =>
                      op[c].result.error = "Gemini did not return an image. " \o op[c].text)
    /\ [][\A c \in Calls :
             (GotNoImage(c)' /\ pc'[c] # "done") =>
                 UNCHANGED <<cacheRef, genCacheVars, durableVars, nImages>>]_vars
    /\ [][\A c \in Calls :
             GotNoImage(c) =>
                 /\ UNCHANGED <<genCacheVars, durableVars, nImages>>
                 /\ \/ cacheRef' = cacheRef
                    \/ /\ op[c].mode = "select"
                       /\ isComposite'
                       /\ cacheRef' = Put(cacheRef, op[c].key,
                                          [url |-> generatedImage', isComposite |-> TRUE])
                 /\ (Returns(c) /\ op[c].mode # "select") =>
                        /\ error' = FailMessage(op[c].mode)
                        /\ generatedImage' = NoUrl
                        /\ cacheRef' = cacheRef]_vars

C14_Witness ==
    \E c \in Calls :
        /\ pc[c] = "result"
        /\ op[c].mode = "nano"
        /\ op[c].responses = 1
        /\ op[c].remoteCalls = 2
        /\ op[c].result.error = "Gemini did not return an image. blocked by safety filter"

NetworkSteps ==
    {"lookup", "fetch", "remote", "backoff", "upload", "save", "hook_upload", "hook_save"}

GeneratorFailed(c) ==
    pc[c] = "result" /\ ~(op[c].result.success /\ op[c].result.imageUrl # NoUrl)

\* C16: the local composite fallback is used in paired mode only.  There a failed
\* generation is followed by the composer, and if the composer succeeds the
\* operation ends showing the composite image with isComposite = true; in nano and
\* transfer mode a failed generation never reaches the composer and ends with an
\* error and a null image.
C16_CompositeFallbackInPairedModeOnly ==
    /\ [](\A c \in Calls : pc[c] = "compose" => op[c].mode = "select")
    /\ [][\A c \in Calls :
             /\ (GeneratorFailed(c) /\ pc'[c] # pc[c]) =>
                    IF op[c].mode = "select"
                    THEN pc'[c] = "compose"
                    ELSE /\ Returns(c)
                         /\ op'[c].outcome = "failed"
                         /\ error' = FailMessage(op[c].mode)
                         /\ error' # NULL
                         /\ generatedImage' = NoUrl
                         /\ ~isComposite'
                         /\ cacheRef' = cacheRef
             /\ (pc[c] = "compose" /\ pc'[c] # pc[c]) =>
                    /\ Returns(c)
                    /\ \/ /\ op'[c].outcome = "composite"
                          /\ generatedImage' =
                                CompositeUrl(ItemUrl(TopItems, op[c].topId),
                                             ItemUrl(BottomItems, op[c].bottomId))
                          /\ isComposite'
                          /\ cacheRef'[op[c].key] =
                                [url |-> generatedImage', isComposite |-> TRUE]
                       \/ /\ op'[c].outcome = "failed"
                          /\ generatedImage' = NoUrl
                          /\ ~isComposite'
                          /\ error' = FailMessage("select")]_vars

C16_Witness ==
    \E c \in Calls :
        /\ pc[c] = "done"
        /\ op[c].outcome = "composite"
        /\ isComposite
        /\ generatedImage = CompositeUrl("tops_1.png", "bottoms_1.png")
        /\ nImages = 0
        /\ apiKey # ""

\* C17: an operation that fails ends with a user-facing message and a null image: a
\* denial by the rate limiter, and every operation that returns without an image
\* to show, whether the remote quota was exhausted, the remote call failed, no
\* image was returned or the composite fallback failed.  Every return leaves the
\* in-flight flag and isGenerating cleared.
C17_FailureGivesMessageAndNullImage ==
    [][\A c \in Calls :
          /\ (Invoked(c) /\ op'[c].outcome = "denied") =>
                 /\ error' # NULL
                 /\ generatedImage' = NoUrl
                 /\ ~inFlight' /\ ~isGenerating'
          /\ Returns(c) =>
                 /\ ~inFlight' /\ ~isGenerating'
                 /\ op'[c].outcome \in {"ok", "composite", "failed"}
                 /\ op'[c].outcome = "failed" =>
                        /\ error' = FailMessage(op[c].mode)
                        /\ error' # NULL
                        /\ generatedImage' = NoUrl
                        /\ ~isComposite'
                 /\ op'[c].outcome # "failed" => generatedImage' # NoUrl
                 /\ (GeneratorFailed(c) \/ (pc[c] = "compose" /\ generatedImage' = NoUrl)) =>
                        op'[c].outcome = "failed"]_vars

C17_Witness ==
    \E c \in Calls :
        /\ pc[c] = "done"
        /\ op[c].outcome = "failed"
        /\ op[c].mode = "select"
        /\ nInvocations = 1
        /\ now > 60000
        /\ error = "Failed to generate outfit. Please try again."
        /\ generatedImage = NoUrl

\* C18: a call of a hook operation made while another is in flight returns at once
\* and changes nothing: the limiter history and configuration, the memory tier, the
\* in-flight flag, the image, error, isGenerating and isComposite state, the
\* generator caches, storage and the object URLs are unchanged, so no error is
\* surfaced, and the operation in flight is not disturbed.
C18_RejectedCallChangesNothing ==
    [][\A c \in Calls :
          (Invoked(c) /\ inFlight /\ op'[c].via = "hook") =>
              /\ op'[c].outcome = "rejected"
              /\ pc'[c] = "done"
              /\ op'[c].rlChecks = 0 /\ op'[c].recorded = 0
              /\ inFlight'
              /\ error' = error
              /\ generatedImage' = generatedImage
              /\ isGenerating' = isGenerating
              /\ UNCHANGED <<history, config, callLog, cacheRef, isComposite, genCacheVars,
                             durableVars, liveObjectUrls, nImages, now>>
              /\ \A d \in Calls \ {c} : pc'[d] = pc[d] /\ op'[d] = op[d]]_vars

C18_Witness ==
    \E c, d \in Calls :
        /\ pc[c] = "done" /\ op[c].outcome = "rejected" /\ op[c].mode = "transfer"
        /\ op[c].via = "hook"
        /\ pc[d] = "backoff" /\ op[d].mode = "nano"
        /\ inFlight /\ isGenerating /\ error = NULL
        /\ liveObjectUrls = {}
        /\ Len(callLog) = 1

\* the accepted calls that are within the trailing window
AcceptedInWindow == InWindow(callLog, config, now)

\* maxCalls accepted calls are within the window
WindowFull == Len(AcceptedInWindow) >= config.maxCalls

\* the cooldown since the last accepted call is over
CooldownOver == Len(callLog) = 0 \/ now - Last(callLog) >= config.cooldownMs

\* C19 as stated: for every configuration, right after maxCalls accepted calls were
\* recorded within windowMs, canMakeCall returns allowed = false with reason
\* "window limit".
C19_WindowLimitRightAfterLastCall ==
    (WindowFull /\ now = Last(callLog)) =>
        /\ ~HookRateLimitCheck(history, config, now).allowed
        /\ HookRateLimitCheck(history, config, now).reason = "window limit"

\* C19 as amended: for every configuration, while maxCalls accepted calls are
\* within windowMs canMakeCall returns allowed = false; the reason is "window
\* limit", with the time until the oldest call of the window expires, once
\* cooldownMs has passed since the last accepted call (at once when cooldownMs is
\* 0), and "cooldown" before that.
C19_WindowLimitOnceCooldownIsOver ==
    WindowFull =>
        LET decision == HookRateLimitCheck(history, config, now)
        IN  /\ ~decision.allowed
            /\ decision.reason = (IF CooldownOver THEN "window limit" ELSE "cooldown")
            /\ CooldownOver =>
                  /\ decision.waitTime = (AcceptedInWindow[1] + config.windowMs) - now
                  /\ decision.waitTime > 0

C19_Witness ==
    /\ WindowFull
    /\ config.maxCalls = 3
    /\ config.cooldownMs = 1
    /\ Len(callLog) = 3
    /\ now = Last(callLog) + 1
    /\ HookRateLimitCheck(history, config, now).reason = "window limit"

\* less than cooldownMs has passed since the last accepted call
InCooldown == Len(callLog) >= 1 /\ now - Last(callLog) < config.cooldownMs

\* C20: after an accepted call, every canMakeCall made before cooldownMs has elapsed
\* returns allowed = false with reason "cooldown" and a wait time equal to the
\* rest of the cooldown, whether the window is full or not.
C20_CooldownDenies ==
    InCooldown =>
        LET decision == HookRateLimitCheck(history, config, now)
        IN  /\ ~decision.allowed
            /\ decision.reason = "cooldown"
            /\ decision.waitTime = config.cooldownMs - (now - Last(callLog))
            /\ decision.waitTime > 0

C20_Witness ==
    /\ InCooldown
    /\ WindowFull
    /\ Len(callLog) = 2
    /\ config.cooldownMs = 2
    /\ now = Last(callLog) + 1
    /\ HookRateLimitCheck(history, config, now).waitTime = 1

\* the next-available time getStatus() reports
NextAvailable == getStatus(history, config, now).nextAvailable

\* C21: recordCall never moves the next-available time backward: the time getStatus
\* reports right after a call is recorded is not earlier than the one it reported
\* right before, whatever the recorded history and the configuration.
C21_RecordCallNeverMovesNextAvailableBack ==
    [][callLog' # callLog =>
          /\ now' = now
          /\ NextAvailable' >= NextAvailable
          /\ NextAvailable' >= now
          /\ ~canMakeCall(history', config', now').allowed =>
                NextAvailable' = now + canMakeCall(history', config', now').waitTime]_vars

C21_Witness ==
    /\ Len(callLog) = 3
    /\ now = Last(callLog)
    /\ config.cooldownMs = 0
    /\ WindowFull
    /\ NextAvailable = AcceptedInWindow[1] + config.windowMs
    /\ NextAvailable > now + 1

\* C22: generateNanoOutfit never gets from its generator, for one occasion text, an
\* image the remote made for another occasion text.
C22_NanoImageIsForItsOccasion ==
    \A c \in Calls :
        (pc[c] = "result" /\ op[c].mode = "nano" /\ op[c].result.success) =>
            op[c].result.imageUrl.request = op[c].key

\* C23: the paired mode's keys are injective and directional on (top id, bottom
\* id): two requests have the same memory-tier key, or the same pair key, only if
\* they have the same top id and the same bottom id, ids that hold the delimiter
\* included, and the request for the swapped pair of two different ids has another
\* key.
C23_PairedKeyInjective ==
    \A c, d \in Calls :
        (pc[c] = "keyed" /\ pc[d] = "keyed") =>
            /\ op[c].key = op[d].key =>
                  op[c].topId = op[d].topId /\ op[c].bottomId = op[d].bottomId
            /\ op[c].gkey = op[d].gkey =>
                  op[c].topId = op[d].topId /\ op[c].bottomId = op[d].bottomId
            /\ (/\ op[c].topId # op[c].bottomId
                /\ op[d].topId = op[c].bottomId
                /\ op[d].bottomId = op[c].topId) => op[c].key # op[d].key

\* the object URLs of the transfer operations that are under way
UrlsInUse == {op[c].objUrl : c \in {d \in Calls : Active(d) /\ op[d].mode = "transfer"}}

\* C24: an object URL created by generateOutfitTransfer is live only while its
\* operation is under way: a call that ends at a memory-cache hit or a rate-limit
\* denial leaves no URL behind, the URL of a started operation is revoked when it
\* returns, with a result or an error, and a call rejected by the in-flight guard
\* creates none.
C24_ObjectUrlsAreRevoked ==
    /\ [](liveObjectUrls = UrlsInUse)
    /\ [][\A c \in Calls :
             /\ (Invoked(c) /\ pc'[c] = "done") => liveObjectUrls' = liveObjectUrls
             /\ (Invoked(c) /\ op'[c].outcome = "rejected") => op'[c].objUrl = ""
             /\ (Invoked(c) /\ op'[c].mode = "transfer" /\ pc'[c] # "done") =>
                    /\ op'[c].objUrl \notin liveObjectUrls
                    /\ liveObjectUrls' = liveObjectUrls \cup {op'[c].objUrl}
             /\ (Returns(c) /\ op[c].mode = "transfer") =>
                    /\ op[c].objUrl \in liveObjectUrls
                    /\ liveObjectUrls' = liveObjectUrls \ {op[c].objUrl}]_vars

C24_Witness ==
    \E c \in Calls :
        /\ pc[c] = "done"
        /\ op[c].mode = "transfer"
        /\ op[c].outcome = "cache_hit"
        /\ op[c].objUrl = objectUrlFor(2)
        /\ liveObjectUrls = {}

\* s is what is left of t after dropping some of its oldest entries
IsSuffix(s, t) == Len(s) <= Len(t) /\ s = SubSeq(t, Len(t) - Len(s) + 1, Len(t))

\* no read has dropped a recorded call that the current configuration still counts
NothingCountedWasPruned ==
    /\ Len(history) >= Len(InWindow(callLog, config, now))
    /\ InCooldown => Len(history) > 0

LaterTimes == now..(LimiterMaxTime + 1)

SucceedsThroughRemote(c) == GotRemoteImage(c) /\ Returns(c) /\ op'[c].outcome = "ok"

\* C27: a nano or transfer operation that succeeds with the image of its remote
\* call appends exactly one generated-outfit row, with its mode as source and null
\* top and bottom ids, and rows are appended by nothing else; a paired operation
\* that succeeds with the stored image of its remote call has written the row of
\* its (top, bottom) pair with that URL and source select; a memory-tier hit
\* writes no row.
C27_SuccessfulGenerationsAreRecorded ==
    [][/\ \A c \in Calls :
            /\ (op[c].mode \in {"nano", "transfer"} /\ SucceedsThroughRemote(c)) =>
                  /\ outfitRows' = Append(outfitRows,
                                          [topId |-> NULL, bottomId |-> NULL,
                                           url |-> generatedImage', source |-> op[c].mode])
                  /\ composites' = composites
            /\ (op[c].mode = "select" /\ pc[c] = "save" /\ GotRemoteImage(c)
                   /\ op'[c].result = OkResult(op[c].storageUrl)) =>
                  /\ pairKey(op[c].topId, op[c].bottomId) \in DOMAIN composites'
                  /\ composites'[pairKey(op[c].topId, op[c].bottomId)] =
                        [url |-> op[c].storageUrl, source |-> "select"]
            /\ (op[c].mode = "select" /\ SucceedsThroughRemote(c)
                   /\ generatedImage'.kind = "storage") =>
                  /\ pairKey(op[c].topId, op[c].bottomId) \in DOMAIN composites
                  /\ composites[pairKey(op[c].topId, op[c].bottomId)] =
                        [url |-> generatedImage', source |-> "select"]
                  /\ UNCHANGED <<composites, outfitRows>>
            /\ (Invoked(c) /\ op'[c].outcome = "cache_hit") =>
                  UNCHANGED <<composites, outfitRows>>
       /\ outfitRows' # outfitRows =>
            \E c \in Calls : op[c].mode \in {"nano", "transfer"} /\ Returns(c)
                                /\ op'[c].outcome = "ok"]_vars

C27_Witness ==
    /\ nInvocations = 1
    /\ nImages = 1
    /\ Len(outfitRows) = 1
    /\ outfitRows[1].source = "transfer"
    /\ outfitRows[1].url = generatedImage
    /\ \E c \in Calls : pc[c] = "done" /\ op[c].outcome = "ok"

\* the remote calls that the operation in progress in slot c made in the trailing window
RemoteCallsInWindow(c) == Len(InWindow(op[c].calledAt, config, now))

\* C28: in any trailing interval of windowMs the remote generation API is invoked
\* at most maxCalls times, every retry attempt counted; here for the invocations
\* of one operation in progress, which the claim bounds as well.
C28_RemoteCallsWithinWindowCap ==
    \A c \in Calls : RemoteCallsInWindow(c) <= config.maxCalls

\* the operation of slot c has started and not returned
Started(c) == pc[c] \notin {"idle", "done"}

\* C29: when every remote call, reference-image fetch, backoff timer and storage
\* call eventually returns, every started operation eventually completes: a state
\* with an operation in progress leads to one with none in progress and the
\* in-flight flag and isGenerating both false; both are false in the state an
\* operation returns to, and a request made while the in-flight flag is false is
\* not rejected by the guard.
C29_StartedOperationsComplete ==
    /\ (\E c \in Calls : Started(c))
          ~> ((\A c \in Calls : ~Started(c)) /\ ~inFlight /\ ~isGenerating)
    /\ [][\A c \in Calls :
             /\ (Started(c) /\ Returns(c)) => (~inFlight' /\ ~isGenerating')
             /\ (Invoked(c) /\ ~inFlight) => op'[c].outcome # "rejected"]_vars

C29_Witness ==
    /\ Len(callLog) = 2
    /\ \A c \in Calls : ~Started(c)
    /\ pc[1] = "done"
    /\ op[1].outcome = "failed"
    /\ ~inFlight
    /\ ~isGenerating

\* C30: in paired mode, whenever the memory tier holds an AI-generated, stored
\* image for a (top, bottom) pair and the durable composite row of that pair
\* exists, the two URLs are equal, whatever generations, durable hits, failed
\* lookups and failed uploads or saves came before.
C30_MemoryTierAgreesWithCompositeRow ==
    \A top \in TopItems, bottom \in BottomItems :
        LET key == outfitHookKey(top, bottom)
        IN  (/\ key \in DOMAIN cacheRef
             /\ ~cacheRef[key].isComposite
             /\ cacheRef[key].url.kind = "storage"
             /\ pairKey(top.id, bottom.id) \in DOMAIN composites)
            => cacheRef[key].url = getCachedComposite(composites, top.id, bottom.id)

\* the pair's row was rewritten by a generation of this session, after a failed lookup
C30_Witness ==
    LET key == outfitHookKey([id |-> "t1"], [id |-> "b1"])
    IN  /\ key \in DOMAIN cacheRef
        /\ ~cacheRef[key].isComposite
        /\ cacheRef[key].url.kind = "storage"
        /\ cacheRef[key].url # StorageUrl(outfitFileName("t1", "b1", 0))
        /\ cacheRef[key].url = getCachedComposite(composites, "t1", "b1")
        /\ outfitHookKey([id |-> "t1"], [id |-> "b2"]) \in DOMAIN cacheRef

\* the error carries the code 429 in error.code, status or code
Carries429(err) == 429 \in {err.ecode, err.status, err.code}

\* the error carries the marker in error.status or statusMessage
CarriesMarker(err) == "RESOURCE_EXHAUSTED" \in {err.estatus, err.statusMessage}

\* C31: isQuotaError is true exactly for the errors that carry 429 in one of
\* error.code, status or code, or RESOURCE_EXHAUSTED in error.status or
\* statusMessage, whatever the other fields hold; the retry loop retries exactly
\* those.
C31_QuotaErrorsAre429OrMarker ==
    \A c \in Calls :
        op[c].err # NoErr =>
            /\ isQuotaError(op[c].err) <=> (Carries429(op[c].err) \/ CarriesMarker(op[c].err))
            /\ (op[c].quotaErrors = 1) <=> (Carries429(op[c].err) \/ CarriesMarker(op[c].err))
            /\ (pc[c] = "backoff") <=> (Carries429(op[c].err) \/ CarriesMarker(op[c].err))

\* the decision at the current time, and the one after waiting the time it reports
\* with no call recorded in between
DecisionNow == HookRateLimitCheck(history, config, now)

DecisionAfterWait ==
    HookRateLimitCheck(HistoryAfterCheck(history, config, now), config,
                       now + DecisionNow.waitTime)

\* C32 as stated: if canMakeCall denies at time t with wait time w and no call is
\* recorded in between, canMakeCall at t + w allows, for the cooldown and for the
\* window-limit reason.
C32_ReportedWaitIsSufficient == (~DecisionNow.allowed) => DecisionAfterWait.allowed

\* C32 as amended: if canMakeCall denies at time t with wait time w and no call is
\* recorded in between, then w > 0 and at t + w: after a window-limit denial
\* canMakeCall allows; after a cooldown denial the cooldown denies no more, and
\* canMakeCall allows unless maxCalls calls are still within the window, when it
\* denies with reason "window limit".
C32_ReportedWaitEndsTheReportedReason ==
    (~DecisionNow.allowed) =>
        LET later == now + DecisionNow.waitTime
            stillFull == Len(InWindow(callLog, config, later)) >= config.maxCalls
        IN  /\ DecisionNow.waitTime > 0
            /\ DecisionNow.reason = "window limit" =>
                  DecisionAfterWait.allowed /\ ~stillFull
            /\ DecisionNow.reason = "cooldown" =>
                  /\ DecisionAfterWait.reason # "cooldown"
                  /\ DecisionAfterWait.allowed <=> ~stillFull
                  /\ stillFull => DecisionAfterWait.reason = "window limit"

\* a cooldown denial whose reported wait ends in a window-limit denial
C32_Witness ==
    /\ DecisionNow.reason = "cooldown"
    /\ DecisionNow.waitTime = 1
    /\ DecisionAfterWait.reason = "window limit"
    /\ config.maxCalls = 2
    /\ Len(callLog) = 2

\* the calls of addClothingItem that one file selection started
SameSelection(i, j) ==
    /\ wardrobeTasks[i].kind = "add"
    /\ wardrobeTasks[j].kind = "add"
    /\ wardrobeTasks[i].selection = wardrobeTasks[j].selection

\* C33: the clothing items that one file selection uploads concurrently are stored
\* under pairwise distinct blob names, and no upload overwrites the image of
\* another item of the selection: the blob behind an item's URL holds that item's
\* file.
C33_ConcurrentUploadsHaveDistinctNames ==
    /\ \A i, j \in 1..Len(wardrobeTasks) :
          (i # j /\ SameSelection(i, j)) =>
              wardrobeTasks[i].fileName # wardrobeTasks[j].fileName
    /\ \A it \in clothingItems :
          (/\ fileNameOfUrl(it.image_url) \in DOMAIN clothingBlobs
           /\ \E other \in clothingItems :
                 other # it /\ other.selection = it.selection) =>
              clothingBlobs[fileNameOfUrl(it.image_url)] = it.file

\* deleteClothingItem has returned or thrown for the item
DeletionEnded(item) ==
    \E i \in 1..Len(wardrobeTasks) :
        /\ wardrobeTasks[i].kind = "delete"
        /\ wardrobeTasks[i].id = item.id
        /\ wardrobeTasks[i].stage \in {"done", "failed"}

\* C35: deleteClothingItem removes both the item's row and its blob, or fails
\* leaving both in place: whatever fails, the fetch, the blob deletion or the row
\* deletion, no outcome leaves the row present while its blob is gone.
C35_DeletionLeavesNoRowWithoutBlob ==
    \A it \in clothingItems :
        (/\ DeletionEnded(it)
         /\ \A other \in clothingItems : other.image_url = it.image_url => other = it) =>
            fileNameOfUrl(it.image_url) \in DOMAIN clothingBlobs

\* the image was produced by the local composite fallback
ProducedByComposer(url) == url.kind = "composite"

\* C34: in every reachable state of the hook with a non-null generatedImage,
\* isComposite is true exactly when that image was produced by the local
\* composite fallback, the image served from the memory tier included; and
\* clearGeneratedImage resets the image, isComposite and error together.
C34_IsCompositeDescribesTheImage ==
    /\ [](generatedImage # NoUrl => (isComposite <=> ProducedByComposer(generatedImage)))
    /\ [][clearGeneratedImage =>
             (generatedImage' = NoUrl /\ ~isComposite' /\ error' = NULL)]_vars

====
